---------------------------- MODULE Spec2Model ----------------------------
(***************************************************************************)
(* Model of generate.py, the EPITECH Makefile generator.                   *)
(*                                                                         *)
(* Text is a sequence of atoms (strings).  A command-line token is a       *)
(* sequence of one-character atoms, so that startswith, endswith, split    *)
(* and strip are computed character by character.  The literal pieces of   *)
(* the Makefile template and of the printed messages are multi-character   *)
(* atoms, cut at the places where a value is interpolated or where a word  *)
(* (a variable name, a target name) ends.                                  *)
(*                                                                         *)
(* Python list index k is TLA+ index k+1: args[1] is the program path and  *)
(* the scan index i starts at 2.                                           *)
(***************************************************************************)
EXTENDS Integers, Sequences, FiniteSets, TLC

VARIABLES
    args,             \* sys.argv
    pc,               \* position of the run: main, scan, validate, generate, write, exit
    i,                \* scan index of parse_arguments
    config,           \* the config dict built by parse_arguments
    ret,              \* what parse_arguments returned: "unset", "None" or "config"
    stdout,           \* the lines printed so far, each a text
    makefile_content, \* the string returned by generate_makefile
    file,             \* the content of ./Makefile written by this run, <<>> if none
    exit_status       \* -1 while running, then the process exit status

vars == <<args, pc, i, config, ret, stdout, makefile_content, file, exit_status>>

-----------------------------------------------------------------------------
(* Bounds of the checked inputs *)

MaxArgs == 3

MaxListOpts == 2

-----------------------------------------------------------------------------
(* Python values and string primitives *)

None == <<"None">>

Whitespace == {" ", "\t", "\n", "\r"}

\* `not x` for a string or None
Falsy(x) == x = None \/ x = <<>>

StartsWithDash(s) == Len(s) >= 1 /\ s[1] = "-"

EndsWithDotC(s) == Len(s) >= 2 /\ s[Len(s) - 1] = "." /\ s[Len(s)] = "c"

HasComma(s) == \E k \in 1..Len(s) : s[k] = ","

\* s.split(sep) for a one-atom separator
RECURSIVE SplitOn(_, _)
SplitOn(s, sep) ==
    IF \A k \in 1..Len(s) : s[k] # sep
    THEN <<s>>
    ELSE LET k == CHOOSE j \in 1..Len(s) :
                      s[j] = sep /\ \A h \in 1..(j - 1) : s[h] # sep
         IN  <<SubSeq(s, 1, k - 1)>> \o SplitOn(SubSeq(s, k + 1, Len(s)), sep)

RECURSIVE LStrip(_)
LStrip(s) == IF s # <<>> /\ Head(s) \in Whitespace THEN LStrip(Tail(s)) ELSE s

RECURSIVE RStrip(_)
RStrip(s) ==
    IF s # <<>> /\ s[Len(s)] \in Whitespace
    THEN RStrip(SubSeq(s, 1, Len(s) - 1))
    ELSE s

\* s.strip()
Strip(s) == RStrip(LStrip(s))

\* [x.strip() for x in s.split(",")]
SplitCommaStrip(s) ==
    LET parts == SplitOn(s, ",")
    IN  [k \in 1..Len(parts) |-> Strip(parts[k])]

\* s.split(): the maximal runs of non-whitespace characters
RECURSIVE SplitWhitespace(_)
SplitWhitespace(s) ==
    LET t == LStrip(s)
    IN  IF t = <<>>
        THEN <<>>
        ELSE IF \A k \in 1..Len(t) : t[k] \notin Whitespace
        THEN <<t>>
        ELSE LET k == CHOOSE j \in 1..Len(t) :
                          t[j] \in Whitespace /\ \A h \in 1..(j - 1) : t[h] \notin Whitespace
             IN  <<SubSeq(t, 1, k - 1)>> \o SplitWhitespace(SubSeq(t, k + 1, Len(t)))

\* sep.join(list)
RECURSIVE Join(_, _)
Join(list, sep) ==
    IF list = <<>> THEN <<>>
    ELSE IF Len(list) = 1 THEN list[1]
    ELSE list[1] \o sep \o Join(Tail(list), sep)

\* any(list) for a list of strings
AnyTruthy(list) == \E k \in 1..Len(list) : list[k] # <<>>

-----------------------------------------------------------------------------
(* Command-line tokens *)

LongName == <<"-", "-", "n", "a", "m", "e">>
ShortName == <<"-", "n">>
LongBinary == <<"-", "-", "b", "i", "n", "a", "r", "y">>
ShortBinary == <<"-", "b">>
LongSrc == <<"-", "-", "s", "r", "c">>
ShortSrc == <<"-", "s">>
LongTests == <<"-", "-", "t", "e", "s", "t", "s">>
ShortTests == <<"-", "t">>
LongInclude == <<"-", "-", "i", "n", "c", "l", "u", "d", "e">>
ShortInclude == <<"-", "I">>
LongFlags == <<"-", "-", "f", "l", "a", "g", "s">>
ShortFlags == <<"-", "f">>

IsName(arg) == arg = LongName \/ arg = ShortName
IsBinary(arg) == arg = LongBinary \/ arg = ShortBinary
IsSrc(arg) == arg = LongSrc \/ arg = ShortSrc
IsTests(arg) == arg = LongTests \/ arg = ShortTests
IsInclude(arg) == arg = LongInclude \/ arg = ShortInclude
IsFlags(arg) == arg = LongFlags \/ arg = ShortFlags

\* the tokens matched by one of the six option branches of the scan
Recognized(arg) ==
    IsName(arg) \/ IsBinary(arg) \/ IsSrc(arg) \/ IsTests(arg) \/ IsInclude(arg) \/ IsFlags(arg)

\* the program path and the tokens the checked argument lists are made of
Prog == <<"g">>
Unknown == <<"-", "x">>
Plain == <<"p">>
FileC == <<"c", ".", "c">>
CommaList == <<"a", ".", "c", ",", " ", "b", ".", "c">>
Empty == <<>>

Values == {Plain, FileC, CommaList, Empty}

Tokens ==
    {LongName, ShortName, LongBinary, ShortBinary, LongSrc, ShortSrc, LongTests,
     ShortTests, LongInclude, ShortInclude, LongFlags, ShortFlags, Unknown} \cup Values

\* every token list of at most MaxArgs tokens
TokenLists == UNION {[1..n -> Tokens] : n \in 0..MaxArgs}

\* a project name followed by at most MaxListOpts --src/--tests options with their values
ListOpts == {LongSrc, ShortSrc, LongTests}

RECURSIVE ListOptionLists(_)
ListOptionLists(n) ==
    IF n = 0 THEN {<<>>}
    ELSE LET shorter == ListOptionLists(n - 1)
         IN  shorter \cup {s \o <<o, v>> : s \in shorter, o \in ListOpts, v \in Values}

ArgLists == TokenLists \cup {<<Plain>> \o s : s \in ListOptionLists(MaxListOpts)}

-----------------------------------------------------------------------------
(* parse_arguments *)

InitialConfig ==
    [project_name |-> None,
     binary_name  |-> None,
     src_files    |-> <<>>,
     test_files   |-> <<>>,
     include_dirs |-> << <<".", "/", "i", "n", "c", "l", "u", "d", "e">> >>,
     extra_flags  |-> <<>>]

\* `i + 1 < len(args)`: the option at k is followed by a token
HasValue(a, k) == k + 1 <= Len(a)

\* AfterOption with the value left to be scanned as a token of its own
AfterOptionByOne(k) == k + 1

\* `i += 2`: scanning resumes after the option's value
AfterOption(k) == k + 2

\* ListOption with a bare value replacing the list, as --include does
ListOptionReplaces(list, value) ==
    IF HasComma(value) THEN SplitCommaStrip(value) ELSE <<value>>

\* --src and --tests: a comma value replaces the list, a bare value is appended
ListOption(list, value) ==
    IF HasComma(value) THEN SplitCommaStrip(value) ELSE Append(list, value)

\* --include: a comma value is split, a bare value becomes the only element
IncludeOption(value) ==
    IF HasComma(value) THEN SplitCommaStrip(value) ELSE <<value>>

\* PositionalUpdate without the test of the .c suffix
PositionalAppendsAny(cfg, arg) ==
    IF Falsy(cfg.project_name) THEN [cfg EXCEPT !.project_name = arg]
    ELSE IF Falsy(cfg.binary_name) THEN [cfg EXCEPT !.binary_name = arg]
    ELSE [cfg EXCEPT !.src_files = Append(@, arg)]

\* the positional branch of the scan
PositionalUpdate(cfg, arg) ==
    IF Falsy(cfg.project_name) THEN [cfg EXCEPT !.project_name = arg]
    ELSE IF Falsy(cfg.binary_name) THEN [cfg EXCEPT !.binary_name = arg]
    ELSE IF EndsWithDotC(arg) THEN [cfg EXCEPT !.src_files = Append(@, arg)]
    ELSE cfg

\* ParseDefaults that takes only None, not the empty string, for an unset name
ParseDefaultsNoneOnly(cfg) ==
    IF cfg.binary_name = None /\ cfg.project_name # None
    THEN [cfg EXCEPT !.binary_name = cfg.project_name]
    ELSE cfg

\* the defaults set before parse_arguments returns its config
ParseDefaults(cfg) ==
    IF Falsy(cfg.binary_name) /\ ~Falsy(cfg.project_name)
    THEN [cfg EXCEPT !.binary_name = cfg.project_name]
    ELSE cfg

Scanning == pc = "scan" /\ i <= Len(args)

SetName(cfg, value) == [cfg EXCEPT !.project_name = value]
SetBinary(cfg, value) == [cfg EXCEPT !.binary_name = value]
SetSrc(cfg, value) == [cfg EXCEPT !.src_files = ListOption(@, value)]
SetTests(cfg, value) == [cfg EXCEPT !.test_files = ListOption(@, value)]
SetInclude(cfg, value) == [cfg EXCEPT !.include_dirs = IncludeOption(value)]
SetFlags(cfg, value) == [cfg EXCEPT !.extra_flags = SplitWhitespace(value)]

\* an option branch: take the value and go on, or report the missing value and return None
Option(update, message) ==
    /\ IF HasValue(args, i)
       THEN /\ config' = update
            /\ i' = AfterOption(i)
            /\ UNCHANGED <<pc, ret, stdout>>
       ELSE /\ stdout' = Append(stdout, <<message>>)
            /\ ret' = "None"
            /\ pc' = "validate"
            /\ UNCHANGED <<config, i>>
    /\ UNCHANGED <<args, makefile_content, file, exit_status>>

OptName ==
    /\ Scanning /\ IsName(args[i])
    /\ Option(SetName(config, args[i + 1]), "[!] Error: --name requires a value")

OptBinary ==
    /\ Scanning /\ IsBinary(args[i])
    /\ Option(SetBinary(config, args[i + 1]), "[!] Error: --binary requires a value")

OptSrc ==
    /\ Scanning /\ IsSrc(args[i])
    /\ Option(SetSrc(config, args[i + 1]), "[!] Error: --src requires a value")

OptTests ==
    /\ Scanning /\ IsTests(args[i])
    /\ Option(SetTests(config, args[i + 1]), "[!] Error: --tests requires a value")

OptInclude ==
    /\ Scanning /\ IsInclude(args[i])
    /\ Option(SetInclude(config, args[i + 1]), "[!] Error: --include requires a value")

OptFlags ==
    /\ Scanning /\ IsFlags(args[i])
    /\ Option(SetFlags(config, args[i + 1]), "[!] Error: --flags requires a value")

UnknownOption ==
    /\ Scanning /\ ~Recognized(args[i]) /\ StartsWithDash(args[i])
    /\ stdout' = Append(stdout, <<"[!] Error: Unknown option ">> \o args[i])
    /\ ret' = "None"
    /\ pc' = "validate"
    /\ UNCHANGED <<args, i, config, makefile_content, file, exit_status>>

Positional ==
    /\ Scanning /\ ~Recognized(args[i]) /\ ~StartsWithDash(args[i])
    /\ config' = PositionalUpdate(config, args[i])
    /\ i' = i + 1
    /\ UNCHANGED <<args, pc, ret, stdout, makefile_content, file, exit_status>>

\* the loop is over: apply the defaults and return the config
ParseReturn ==
    /\ pc = "scan" /\ i > Len(args)
    /\ config' = ParseDefaults(config)
    /\ ret' = "config"
    /\ pc' = "validate"
    /\ UNCHANGED <<args, i, stdout, makefile_content, file, exit_status>>

-----------------------------------------------------------------------------
(* generate_makefile *)

DEFAULT_CC == "clang-20"
DEFAULT_CFLAGS == "-Werror -Wextra"
CRITERION_FLAGS == "-lcriterion --coverage"

\* the years datetime.now().year may return
Years == {"2025", "2026"}

\* the separator of the SRC and TESTS lists: space, backslash, newline, two tabs
Continuation == " \\\n\t\t"

generate_makefile_header(year, project_name) ==
    <<"##\n## EPITECH PROJECT, ", year, "\n## ">> \o project_name
        \o <<"\n## File description:\n## Makefile\n##">>

\* `name = value` followed by an empty line
Assign(name, value) == <<name, " = ">> \o value \o <<"\n\n">>

Cflags(include_dirs, extra_flags) ==
    <<DEFAULT_CFLAGS>>
        \o (IF include_dirs # <<>>
            THEN <<" ">> \o Join([k \in 1..Len(include_dirs) |-> <<"-I">> \o include_dirs[k]],
                                 <<" ">>)
            ELSE <<>>)
        \o (IF extra_flags # <<>> THEN <<" ">> \o Join(extra_flags, <<" ">>) ELSE <<>>)

\* FileList with the files separated by a space on one line
FileListSpaces(files) ==
    IF Len(files) > 1 THEN Join(files, <<" ">>) ELSE files[1]

\* the value of SRC and of TESTS
FileList(files) ==
    IF Len(files) > 1 THEN Join(files, <<Continuation>>) ELSE files[1]

TestVariables(test_files) ==
    IF test_files # <<>>
    THEN Assign("TESTS", FileList(test_files))
             \o Assign("SRC_NO_MAIN", <<"$(filter-out %main.c, $(SRC))">>)
    ELSE <<>>

BuildDir == Assign("BUILD_DIR", <<"objects">>)

TestName(test_files) ==
    IF test_files # <<>> THEN Assign("TEST_NAME", <<"unit_tests">>) ELSE <<>>

TestObj(test_files) ==
    IF test_files # <<>>
    THEN Assign("TEST_OBJ",
                <<"$(TESTS:%.c=$(BUILD_DIR)/%.o) $(SRC_NO_MAIN:%.c=$(BUILD_DIR)/%.o)">>)
    ELSE <<>>

BinaryRules ==
    <<"all", ": ", "$(NAME)", "\n\n",
      "$(NAME)", ": ", "$(OBJ)", "\n",
      "\t$(CC) -o $(NAME) $(OBJ) -g $(CFLAGS)\n\n">>

TestRule(test_files) ==
    IF test_files # <<>>
    THEN <<"tests_run", ": ", "$(TEST_OBJ)", "\n",
           "\t$(CC) -o $(TEST_NAME) $(TEST_OBJ) -g $(CFLAGS) ", CRITERION_FLAGS, "\n",
           "\t./$(TEST_NAME)\n",
           "\tgcovr --exclude tests/\n",
           "\tgcovr --exclude tests/ --branches\n\n">>
    ELSE <<>>

ObjectRule ==
    <<"$(BUILD_DIR)/%.o", ": ", "%.c", "\n",
      "\t@mkdir -p $(dir $@)\n",
      "\t$(CC) $(CFLAGS) -c $< -o $@\n\n">>

\* CleanRule that removes the coverage files whether or not there are tests
CleanRuleWithCoverage(test_files) ==
    <<"clean", ":\n", "\trm -rf $(BUILD_DIR)\n", "\trm -Rf *.o\n",
      "\trm -rf *.gcda *.gcno\n", "\n">>

CleanRule(test_files) ==
    <<"clean", ":\n", "\trm -rf $(BUILD_DIR)\n", "\trm -Rf *.o\n">>
        \o (IF test_files # <<>> THEN <<"\trm -rf *.gcda *.gcno\n">> ELSE <<>>)
        \o <<"\n">>

FcleanRule(test_files) ==
    <<"fclean", ": ", "clean", "\n", "\trm -f $(NAME)\n">>
        \o (IF test_files # <<>> THEN <<"\trm -f $(TEST_NAME)\n">> ELSE <<>>)
        \o <<"\trm -Rf #*#\n", "\trm -Rf #~\n\n">>

OtherRules ==
    <<"re", ": ", "fclean all", "\n\n",
      "cs", ": ", "clean fclean", "\n",
      "\tcoding-style . .\n", "\tcat *.log\n", "\tsudo rm *.log\n\n",
      "ban", ":\n", "\tbanned_functions write\n\n">>

\* one line of the debug recipe: @echo "NAME: $(NAME)"
Echo(name, end) == <<"\t@echo \"", name, ": $(", name, ")\"", end>>

DebugRule(test_files) ==
    <<"debug", ":\n">>
        \o Echo("CC", "\n") \o Echo("CFLAGS", "\n") \o Echo("SRC", "\n") \o Echo("OBJ", "\n")
        \o (IF test_files # <<>>
            THEN Echo("TESTS", "\n") \o Echo("TEST_OBJ", "\n") \o Echo("SRC_NO_MAIN", "\n")
            ELSE <<>>)
        \o Echo("BUILD_DIR", "\n\n")

Phony(test_files) ==
    <<".PHONY: ", "fclean", " ", "re", " ", "all", " ", "cs", " ", "ban", " ", "debug">>
        \o (IF test_files # <<>> THEN <<" ", "tests_run">> ELSE <<>>)
        \o <<"\n">>

\* test_files is <<>> both for the empty list and for the None main passes instead of it
generate_makefile(year, project_name, binary_name, src_files, include_dirs, extra_flags, test_files) ==
    generate_makefile_header(year, project_name) \o <<"\n\n">>
        \o Assign("CC", <<DEFAULT_CC>>)
        \o Assign("CFLAGS", Cflags(include_dirs, extra_flags))
        \o Assign("SRC", FileList(src_files))
        \o TestVariables(test_files)
        \o Assign("NAME", binary_name)
        \o BuildDir
        \o TestName(test_files)
        \o Assign("OBJ", <<"$(SRC:%.c=$(BUILD_DIR)/%.o)">>)
        \o TestObj(test_files)
        \o BinaryRules
        \o TestRule(test_files)
        \o ObjectRule
        \o CleanRule(test_files)
        \o FcleanRule(test_files)
        \o OtherRules
        \o DebugRule(test_files)
        \o Phony(test_files)

-----------------------------------------------------------------------------
(* print_usage and main *)

UsageLines ==
    << <<"Usage: python3 generate.py [options] <project_name> [binary_name] [sources...]">>,
       <<"\nOptions:">>,
       <<"  -n, --name <name>        Project name">>,
       <<"  -b, --binary <name>      Binary name (default: project name)">>,
       <<"  -s, --src <files>        Source files (comma-separated)">>,
       <<"  -t, --tests <files>      Test files for Criterion (comma-separated)">>,
       <<"  -I, --include <dirs>     Include directories (default: ./include)">>,
       <<"  -f, --flags <flags>      Additional compiler flags">>,
       <<"\nExamples:">>,
       <<"  python3 generate.py my_project">>,
       <<"  python3 generate.py --name my_project --binary my_prog --src src/main.c,src/utils.c">>,
       <<"  python3 generate.py my_project --tests tests/test_main.c,tests/test_utils.c">>,
       <<"  python3 generate.py my_project my_binary src/main.c src/file.c">>,
       <<"  python3 generate.py my_project --src src/core/main.c,src/utils/helper.c --tests tests/test_core.c">>,
       <<"\nFeatures:">>,
       <<"  - Uses clang-20 as default compiler">>,
       <<"  - Creates build/ directory for .o files">>,
       <<"  - Preserves source directory structure in build/">>,
       <<"  - EPITECH coding-style compliant">>,
       <<"  - Criterion unit tests support with coverage">>,
       <<"  - Automatic main.c exclusion in tests">> >>

\* print_usage: the usage block, then sys.exit(1)
print_usage(before) ==
    /\ stdout' = stdout \o before \o UsageLines
    /\ exit_status' = 1
    /\ pc' = "exit"
    /\ UNCHANGED <<args, i, config, ret, makefile_content, file>>

\* ProjectNameMissing that lets an empty project name through
ProjectNameIsNone(cfg) == cfg.project_name = None

\* `if not config["project_name"]`
ProjectNameMissing(cfg) == Falsy(cfg.project_name)

\* the defaults main applies to the parsed config
MainDefaults(cfg) ==
    LET c1 == IF Falsy(cfg.binary_name)
              THEN [cfg EXCEPT !.binary_name = cfg.project_name] ELSE cfg
        c2 == IF c1.src_files = <<>>
              THEN [c1 EXCEPT !.src_files = << <<"s", "r", "c", "/", "m", "a", "i", "n", ".", "c">> >>]
              ELSE c1
    IN  IF c2.test_files # <<>> /\ ~AnyTruthy(c2.test_files)
        THEN [c2 EXCEPT !.test_files =
                  << <<"t", "e", "s", "t", "s", "/", "t", "e", "s", "t", "_",
                       "m", "a", "i", "n", ".", "c">> >>]
        ELSE c2

\* one warning line for every file that does not end in .c
Warnings(files, tail) ==
    LET bad == SelectSeq(files, LAMBDA f : ~EndsWithDotC(f))
    IN  [k \in 1..Len(bad) |-> <<"[!] Warning: '">> \o bad[k] \o <<tail>>]

\* the status lines main prints before it generates the Makefile
Summary(cfg) ==
    << <<"[+] Generating Makefile for project: ">> \o cfg.project_name,
       <<"[+] Compiler: ", DEFAULT_CC>>,
       <<"[+] Binary name: ">> \o cfg.binary_name,
       <<"[+] Source files: ">> \o Join(cfg.src_files, <<", ">>) >>
        \o (IF cfg.test_files # <<>>
            THEN << <<"[+] Test files: ">> \o Join(cfg.test_files, <<", ">>),
                    <<"[+] Tests: Criterion with coverage enabled">> >>
            ELSE <<>>)
        \o << <<"[+] Include directories: ">> \o Join(cfg.include_dirs, <<", ">>),
              <<"[+] Build directory: ", "build", "/ (preserves source structure)">> >>

Init ==
    /\ args \in {<<Prog>> \o s : s \in ArgLists}
    /\ pc = "main"
    /\ i = 2
    /\ config = InitialConfig
    /\ ret = "unset"
    /\ stdout = <<>>
    /\ makefile_content = <<>>
    /\ file = <<>>
    /\ exit_status = -1

\* `if len(sys.argv) < 2: print_usage()`
MainNoArgs ==
    /\ pc = "main" /\ Len(args) < 2
    /\ print_usage(<<>>)

\* main calls parse_arguments, which starts its scan after the program path
MainCallParse ==
    /\ pc = "main" /\ Len(args) >= 2
    /\ pc' = "scan"
    /\ i' = 2
    /\ config' = InitialConfig
    /\ UNCHANGED <<args, ret, stdout, makefile_content, file, exit_status>>

\* `if not config: print_usage()`
MainNoConfig ==
    /\ pc = "validate" /\ ret = "None"
    /\ print_usage(<<>>)

MainNoProjectName ==
    /\ pc = "validate" /\ ret = "config" /\ ProjectNameMissing(config)
    /\ print_usage(<< <<"[!] Error: Project name is required">> >>)

\* the defaults, the warnings and the status lines
MainResolve ==
    /\ pc = "validate" /\ ret = "config" /\ ~ProjectNameMissing(config)
    /\ config' = MainDefaults(config)
    /\ stdout' = stdout \o Warnings(config'.src_files, "' is not a .c file")
                        \o Warnings(config'.test_files, "' is not a .c test file")
                        \o Summary(config')
    /\ pc' = "generate"
    /\ UNCHANGED <<args, i, ret, makefile_content, file, exit_status>>

MainGenerate ==
    /\ pc = "generate"
    /\ \E year \in Years :
           makefile_content' =
               generate_makefile(year, config.project_name, config.binary_name,
                                 config.src_files, config.include_dirs,
                                 config.extra_flags, config.test_files)
    /\ pc' = "write"
    /\ UNCHANGED <<args, i, config, ret, stdout, file, exit_status>>

\* write_makefile, and the normal end of the process
write_makefile ==
    /\ pc = "write"
    /\ file' = makefile_content
    /\ stdout' = Append(stdout, <<"[+] Makefile generated: ", "Makefile">>)
    /\ exit_status' = 0
    /\ pc' = "exit"
    /\ UNCHANGED <<args, i, config, ret, makefile_content>>

\* open() raises: the exception ends the process with status 1 and nothing written
WriteFails ==
    /\ pc = "write"
    /\ exit_status' = 1
    /\ pc' = "exit"
    /\ UNCHANGED <<args, i, config, ret, stdout, makefile_content, file>>

Next ==
    \/ MainNoArgs
    \/ MainCallParse
    \/ OptName
    \/ OptBinary
    \/ OptSrc
    \/ OptTests
    \/ OptInclude
    \/ OptFlags
    \/ UnknownOption
    \/ Positional
    \/ ParseReturn
    \/ MainNoConfig
    \/ MainNoProjectName
    \/ MainResolve
    \/ MainGenerate
    \/ write_makefile
    \/ WriteFails

Spec == Init /\ [][Next]_vars

-----------------------------------------------------------------------------
(* Reading a rendered Makefile and the printed lines *)

Rendered == makefile_content # <<>>

Atoms(t) == {t[p] : p \in 1..Len(t)}

Count(t, atom) == Cardinality({p \in 1..Len(t) : t[p] = atom})

\* the names on the left of an assignment
DefinedVariables(t) == {t[p] : p \in {q \in 1..(Len(t) - 1) : t[q + 1] = " = "}}

\* the positions of the rules' targets
TargetPositions(t) == {q \in 1..(Len(t) - 1) : t[q + 1] \in {": ", ":\n"}}

Targets(t) == {t[p] : p \in TargetPositions(t)}

\* the targets that name a file the rule makes: the binary and the object files
FileTargets == {"$(NAME)", "$(BUILD_DIR)/%.o"}

\* the variables whose value an @echo line of the Makefile prints
EchoedVariables(t) == {t[p + 3] : p \in {q \in 1..(Len(t) - 3) : t[q] = "\t@echo \""}}

\* the words of the .PHONY line, the last line of the Makefile
PhonyEntries(t) ==
    LET p == CHOOSE q \in 1..Len(t) : t[q] = ".PHONY: "
    IN  {t[q] : q \in (p + 1)..(Len(t) - 1)} \ {" "}

\* the text between `name = ` and the empty line that ends the assignment
VariableValue(t, name) ==
    LET p == CHOOSE q \in 1..(Len(t) - 1) : t[q] = name /\ t[q + 1] = " = "
        e == CHOOSE q \in (p + 2)..Len(t) :
                 t[q] = "\n\n" /\ \A h \in (p + 2)..(q - 1) : t[h] # "\n\n"
    IN  SubSeq(t, p + 2, e - 1)

\* the directory named by the `Build directory` status line
SummaryBuildDir(out) ==
    LET k == CHOOSE j \in 1..Len(out) : out[j][1] = "[+] Build directory: "
    IN  <<out[k][2]>>

UsagePrinted ==
    /\ Len(stdout) >= Len(UsageLines)
    /\ SubSeq(stdout, Len(stdout) - Len(UsageLines) + 1, Len(stdout)) = UsageLines

\* the scan of a[k..] meets an option without a value or an unknown option
RECURSIVE ScanFails(_, _)
ScanFails(a, k) ==
    IF k > Len(a) THEN FALSE
    ELSE IF Recognized(a[k]) THEN k + 1 > Len(a) \/ ScanFails(a, k + 2)
    ELSE IF StartsWithDash(a[k]) THEN TRUE
    ELSE ScanFails(a, k + 1)

-----------------------------------------------------------------------------
(* C1 *)

\* C1: when the argument list is a usage error (no argument, an option without
\* its value, an unknown option, or a project name unset or empty after
\* parsing), the run never reaches the rendering or write step, writes no file,
\* and ends with the usage block printed and exit status 1.
C1_UsageErrorWritesNothing ==
    (\/ Len(args) < 2
     \/ ScanFails(args, 2)
     \/ (ret = "config" /\ config.project_name \in {None, <<>>}))
        => /\ pc \notin {"generate", "write"}
           /\ file = <<>>
           /\ makefile_content = <<>>
           /\ pc = "exit" => exit_status = 1 /\ UsagePrinted

C1_Witness ==
    /\ pc = "exit" /\ exit_status = 1 /\ file = <<>>
    /\ ret = "config" /\ config.project_name = <<>>
    /\ UsagePrinted

-----------------------------------------------------------------------------
(* C3, C4, C5, C9, C10: the rendered text *)

TestVariableNames == {"TESTS", "SRC_NO_MAIN", "TEST_NAME", "TEST_OBJ"}

CoverageCleanLine == "\trm -rf *.gcda *.gcno\n"

\* C3: the test content of a rendered Makefile is all or nothing: without test
\* files the text holds no test variable, no tests_run target, no coverage
\* clean line and no tests_run phony entry; with test files it holds each of
\* them, and exactly one tests_run target.
C3_TestContentAllOrNothing ==
    Rendered =>
        LET t == makefile_content
        IN  IF config.test_files = <<>>
            THEN /\ Atoms(t) \cap (TestVariableNames \cup {"tests_run", CoverageCleanLine}) = {}
                 /\ "tests_run" \notin PhonyEntries(t)
            ELSE /\ TestVariableNames \subseteq DefinedVariables(t)
                 /\ Cardinality({p \in TargetPositions(t) : t[p] = "tests_run"}) = 1
                 /\ Count(t, CoverageCleanLine) = 1
                 /\ "tests_run" \in PhonyEntries(t)

C3_Witness ==
    /\ Rendered /\ config.test_files # <<>>
    /\ "tests_run" \in Targets(makefile_content)
    /\ "TEST_OBJ" \in DefinedVariables(makefile_content)

\* C4: the .PHONY line of a rendered Makefile lists exactly the targets of the
\* Makefile that name no file: all, clean, fclean, re, cs, ban, debug, and
\* tests_run when there are test files.
C4_PhonyListsEveryNonFileTarget ==
    Rendered => PhonyEntries(makefile_content) = Targets(makefile_content) \ FileTargets

\* C5: the debug target of a rendered Makefile echoes exactly the variables the
\* Makefile defines.
C5_DebugEchoesEveryVariable ==
    Rendered => EchoedVariables(makefile_content) = DefinedVariables(makefile_content)

\* C9: the source list that reaches the renderer is never empty, and the SRC
\* definition holds one continuation separator less than there are source
\* files, with the files in their order.
C9_SrcSeparators ==
    /\ pc \in {"generate", "write"} => config.src_files # <<>>
    /\ Rendered =>
           LET v == VariableValue(makefile_content, "SRC")
           IN  /\ Count(v, Continuation) = Len(config.src_files) - 1
               /\ SplitOn(v, Continuation) = config.src_files

C9_Witness ==
    /\ Rendered /\ Len(config.src_files) = 3
    /\ Count(VariableValue(makefile_content, "SRC"), Continuation) = 2

\* C10: in a successful run the build directory named by the status summary is
\* the directory the written Makefile assigns to BUILD_DIR.
C10_SummaryNamesBuildDir ==
    (pc = "exit" /\ exit_status = 0)
        => SummaryBuildDir(stdout) = VariableValue(file, "BUILD_DIR")

-----------------------------------------------------------------------------
(* C2, C6, C7, C8: the scan *)

\* the fold of C2: a comma value replaces the list by its trimmed elements, a
\* bare value is appended
RECURSIVE FoldValues(_, _)
FoldValues(values, acc) ==
    IF values = <<>> THEN acc
    ELSE LET v == Head(values)
             parts == SplitOn(v, ",")
         IN  FoldValues(Tail(values),
                        IF Len(parts) > 1
                        THEN [k \in 1..Len(parts) |-> Strip(parts[k])]
                        ELSE acc \o <<v>>)

\* a project name followed only by --src/-s and --tests/-t options with their values
ListOptionsOnly(a) ==
    /\ Len(a) >= 2 /\ Len(a) % 2 = 0
    /\ ~StartsWithDash(a[2]) /\ a[2] # <<>>
    /\ \A k \in 3..Len(a) : k % 2 = 1 => IsSrc(a[k]) \/ IsTests(a[k])

\* the values of the options of a spelled as one of opts, in their order
RECURSIVE OptionValues(_, _, _)
OptionValues(a, k, opts) ==
    IF k + 1 > Len(a) THEN <<>>
    ELSE (IF a[k] \in opts THEN <<a[k + 1]>> ELSE <<>>) \o OptionValues(a, k + 2, opts)

SrcThenBare == <<Prog, Plain, LongSrc, CommaList, LongSrc, FileC>>
BareThenSrc == <<Prog, Plain, LongSrc, FileC, LongSrc, CommaList>>
FileA == <<"a", ".", "c">>
FileB == <<"b", ".", "c">>

\* C2: after a sequence of --src options the source list is the left-to-right
\* fold of their values (a comma value replaces the list by its trimmed
\* elements, a bare value is appended), and likewise for --tests; `--src
\* a.c,b.c --src c.c` gives [a.c, b.c, c.c] and `--src c.c --src a.c,b.c`
\* gives [a.c, b.c].
C2_ListOptionsFold ==
    (pc = "validate" /\ ret = "config") =>
        /\ ListOptionsOnly(args) =>
               /\ config.src_files = FoldValues(OptionValues(args, 3, {LongSrc, ShortSrc}), <<>>)
               /\ config.test_files = FoldValues(OptionValues(args, 3, {LongTests, ShortTests}), <<>>)
        /\ args = SrcThenBare => config.src_files = <<FileA, FileB, FileC>>
        /\ args = BareThenSrc => config.src_files = <<FileA, FileB>>

C2_Witness ==
    /\ ret = "config" /\ pc = "validate"
    /\ args = SrcThenBare
    /\ config.src_files = <<FileA, FileB, FileC>>

BinaryOptionAbsent(a) == \A k \in 2..Len(a) : ~IsBinary(a[k])

BinaryOptionGivenEmpty(a) ==
    \E k \in 2..(Len(a) - 1) : IsBinary(a[k]) /\ a[k + 1] = <<>>

\* C6 as stated: on reaching rendering binary_name is non-empty, and it equals
\* project_name when --binary is absent or is given an empty value.
C6_BinaryNameDefaultsWithoutOption ==
    pc \in {"generate", "write"} =>
        /\ config.binary_name \notin {None, <<>>}
        /\ (BinaryOptionAbsent(args) \/ BinaryOptionGivenEmpty(args))
               => config.binary_name = config.project_name

\* C6, amended: on reaching rendering binary_name is non-empty; when the scan
\* ends with binary_name unset or empty and a project name set, parse_arguments
\* returns with binary_name equal to project_name, and main leaves both as
\* they are.
C6_BinaryNameResolved ==
    /\ [](pc \in {"generate", "write"} => config.binary_name \notin {None, <<>>})
    /\ [][(/\ pc = "scan" /\ i > Len(args)
           /\ config.binary_name \in {None, <<>>}
           /\ config.project_name \notin {None, <<>>})
              => config'.binary_name = config.project_name]_vars
    /\ [][(pc = "validate" /\ pc' = "generate")
              => /\ config'.binary_name = config.binary_name
                 /\ config'.project_name = config.project_name]_vars

C6_Witness ==
    /\ pc = "generate"
    /\ BinaryOptionGivenEmpty(args)
    /\ config.binary_name = config.project_name
    /\ config.binary_name = Plain

\* the number of positional tokens the scan of a meets from index j up to, not
\* including, index k
RECURSIVE PositionalsBefore(_, _, _)
PositionalsBefore(a, j, k) ==
    IF j >= k THEN 0
    ELSE IF Recognized(a[j]) THEN PositionalsBefore(a, j + 2, k)
    ELSE IF StartsWithDash(a[j]) THEN 0
    ELSE 1 + PositionalsBefore(a, j + 1, k)

\* C7 as stated: positional tokens are assigned by position, whatever options
\* appear: the first fills project_name if unset, the second fills binary_name
\* if unset, a later one ending in .c is appended to src_files, and any other
\* changes nothing.
C7_PositionalByPosition ==
    [][(/\ pc = "scan" /\ i <= Len(args)
        /\ ~Recognized(args[i]) /\ ~StartsWithDash(args[i]))
           => LET n == PositionalsBefore(args, 2, i) + 1
                  arg == args[i]
              IN  config' =
                      IF n = 1
                      THEN (IF config.project_name \in {None, <<>>}
                            THEN [config EXCEPT !.project_name = arg] ELSE config)
                      ELSE IF n = 2
                      THEN (IF config.binary_name \in {None, <<>>}
                            THEN [config EXCEPT !.binary_name = arg] ELSE config)
                      ELSE IF EndsWithDotC(arg)
                      THEN [config EXCEPT !.src_files = Append(@, arg)]
                      ELSE config]_vars

\* C7, amended: a positional token fills the first unfilled field, whatever its
\* position: project_name if that is unset or empty, else binary_name if that
\* is unset or empty, else it is appended to src_files if it ends in .c, else
\* it changes nothing; the scan then moves to the next token.
C7_PositionalFillsFirstUnset ==
    [][(/\ pc = "scan" /\ i <= Len(args)
        /\ ~Recognized(args[i]) /\ ~StartsWithDash(args[i]))
           => /\ i' = i + 1
              /\ IF config.project_name \in {None, <<>>}
                 THEN config' = [config EXCEPT !.project_name = args[i]]
                 ELSE IF config.binary_name \in {None, <<>>}
                 THEN config' = [config EXCEPT !.binary_name = args[i]]
                 ELSE /\ config'.project_name = config.project_name
                      /\ config'.binary_name = config.binary_name
                      /\ config'.src_files =
                             config.src_files
                                 \o (IF EndsWithDotC(args[i]) THEN <<args[i]>> ELSE <<>>)]_vars

C7_Witness ==
    /\ pc = "scan" /\ i = 5
    /\ IsName(args[2])
    /\ ~Recognized(args[4]) /\ ~StartsWithDash(args[4])
    /\ config.project_name = args[3]
    /\ config.binary_name = args[4]

\* C8: a recognized option followed by a token takes that token as its value,
\* whatever it is, and the scan resumes after it; a recognized option that is
\* the last token makes the parse return no configuration; the scan index
\* never passes the end of the argument list.
C8_OptionConsumesOneValue ==
    /\ [](i <= Len(args) + 1)
    /\ [][(pc = "scan" /\ i <= Len(args) /\ Recognized(args[i]))
              => IF i + 1 <= Len(args)
                 THEN /\ i' = i + 2
                      /\ pc' = "scan" /\ ret' = "unset"
                      /\ IsName(args[i]) => config'.project_name = args[i + 1]
                      /\ IsBinary(args[i]) => config'.binary_name = args[i + 1]
                 ELSE /\ ret' = "None"
                      /\ pc' = "validate"
                      /\ config' = config]_vars

C8_Witness ==
    /\ pc = "scan" /\ i = 4
    /\ IsName(args[2]) /\ Recognized(args[3])
    /\ config.project_name = args[3]

=============================================================================
